---- MODULE Spec2Model ----
(***************************************************************************)
(* DailyMusic (src/__init__.py): a cog that, once per 24 hours, walks the  *)
(* registered users, asks Last.fm for each user's top tracks over six time *)
(* ranges, records the first track not yet in the `tracks` table and posts *)
(* it to a webhook.                                                        *)
(*                                                                         *)
(* The model follows the coroutines from one suspension point (await) to   *)
(* the next: everything between two awaits runs without interleaving on    *)
(* the event loop and is one step.  The two sqlite tables are the durable  *)
(* state; a process crash loses every coroutine but keeps the tables.      *)
(***************************************************************************)
EXTENDS Integers, Sequences, FiniteSets, Bags, TLC

\* ---------------------------------------------------------------- bounds
MaxUser == 2      \* discord ids 1..MaxUser
MaxTrack == 2     \* distinct (artist, name) pairs the service can report
MaxLen == 2       \* longest top-tracks list of one response
MaxDay == 2       \* calendar days 1..MaxDay
MaxCred == 2      \* distinct (username, api_key) pairs
MaxTask == 2      \* daily_task invocations that can exist at once

\* ------------------------------------------------------------- constants
TIME_RANGES == <<"7day", "1month", "3month", "6month", "12month", "overall">>

Users == 1..MaxUser
Days == 1..MaxDay
Tasks == 1..MaxTask

\* Track = namedtuple("Track", ["artist", "name"]).  Distinct tracks share
\* artists and names: (1,1), (1,2), (2,1), (2,2), ...
Track(i) == [artist |-> (i + 1) \div 2, name |-> 2 - (i % 2)]
Tracks == {Track(i) : i \in 1..MaxTrack}
NoTrack == [artist |-> 0, name |-> 0]          \* Python None for Track | None

\* Credentials = namedtuple("Credentials", ["username", "api_key"]).
Credentials(i) == [username |-> (i + 1) \div 2, api_key |-> 2 - (i % 2)]
CredentialSet == {Credentials(i) : i \in 1..MaxCred}
NoCredentials == [username |-> 0, api_key |-> 0]   \* no row in `users`

\* What one request to the service can produce: a non-success HTTP status
\* (raise_for_status raises), a JSON body with an "error" key (APIError), or
\* a body with the ranked list data["toptracks"]["track"].
TrackLists == UNION {[1..n -> Tracks] : n \in 0..MaxLen}
Responses ==
    {[kind |-> "status", track |-> <<>>], [kind |-> "error", track |-> <<>>]}
        \cup {[kind |-> "ok", track |-> l] : l \in TrackLists}

VARIABLES
    users,      \* table users: set of rows (discord_id, lfm_username, lfm_api_key)
    tracks,     \* table tracks: set of rows (user_id, date, track_artist, track_name)
    today,      \* what SQLite's date('now') evaluates to
    task,       \* the daily_task coroutines: position and locals
    running,    \* per task: its tasks.loop is scheduled (an unhandled error stops it)
    notified,   \* history: bag of webhook.send calls (user, track, day)
    lost,       \* history: (user, track) recorded, process died before the send
    submitted   \* history: per user, the values of the last modal submitted

vars == <<users, tracks, today, task, running, notified, lost, submitted>>

\* ------------------------------------------------------------ the tables
\* PRIMARY KEY (user_id, track_artist, track_name)
Row(user_id, date, t) ==
    [user_id |-> user_id, date |-> date,
     track_artist |-> t.artist, track_name |-> t.name]

PrimaryKeyTaken(tbl, row) ==
    \E r \in tbl : /\ r.user_id = row.user_id
                   /\ r.track_artist = row.track_artist
                   /\ r.track_name = row.track_name

\* Variant: artist and name are bound to the wrong placeholders.
SeenSwapped(tbl, user_id, t) ==
    \E row \in tbl : /\ row.user_id = user_id
                     /\ row.track_artist = t.name
                     /\ row.track_name = t.artist

\* SELECT 1 FROM tracks WHERE user_id = ? AND track_artist = ? AND track_name = ?
Seen(tbl, user_id, t) ==
    \E row \in tbl : /\ row.user_id = user_id
                     /\ row.track_artist = t.artist
                     /\ row.track_name = t.name

\* Variant: the test has no date condition.
DeliveredAnyDay(tbl, user_id, day) ==
    \E row \in tbl : row.user_id = user_id

\* Variant: the date comparison never matches.
DeliveredNever(tbl, user_id, day) == FALSE

\* Variant: the test looks at the day before.
DeliveredYesterday(tbl, user_id, day) ==
    \E row \in tbl : row.user_id = user_id /\ row.date = day - 1

\* SELECT 1 FROM tracks WHERE user_id = ? AND date = date('now')
DeliveredToday(tbl, user_id, day) ==
    \E row \in tbl : row.user_id = user_id /\ row.date = day

\* A row of table users; discord_id is its PRIMARY KEY.
UserRow(user_id, username, api_key) ==
    [discord_id |-> user_id, lfm_username |-> username, lfm_api_key |-> api_key]

\* SELECT lfm_username, lfm_api_key FROM users WHERE discord_id = ?  .fetchone();
\* Credentials(*credentials) if credentials else None
get_credentials(user_id) ==
    LET rows == {r \in users : r.discord_id = user_id}
    IN  IF rows = {} THEN NoCredentials
        ELSE LET r == CHOOSE x \in rows : TRUE
             IN  [username |-> r.lfm_username, api_key |-> r.lfm_api_key]

Registered == {r.discord_id : r \in users}

\* The cursor of SELECT ... FROM users walks the table in rowid order
\* (discord_id is the INTEGER PRIMARY KEY); rows are read as it is stepped.
NextRows(cursor) == {u \in Registered : u > cursor}
NextRow(cursor) == CHOOSE u \in NextRows(cursor) : \A v \in NextRows(cursor) : u <= v

\* ------------------------------------------------------------- get_track
\* Variant: the scan keeps the last track without a row, not the first.
LastUnseen(tbl, user_id, lst) ==
    LET unseen == {i \in 1..Len(lst) : ~Seen(tbl, user_id, lst[i])}
    IN  IF unseen = {} THEN 0
        ELSE CHOOSE i \in unseen : \A j \in unseen : i >= j

\* Variant: no membership test, the first track of the list is taken.
FirstOfList(tbl, user_id, lst) == IF Len(lst) = 0 THEN 0 ELSE 1

\* "First track not in DB": rank of the first track of the list that has no
\* row for this user, 0 when every track of the list has one.
FirstUnseen(tbl, user_id, lst) ==
    LET unseen == {i \in 1..Len(lst) : ~Seen(tbl, user_id, lst[i])}
    IN  IF unseen = {} THEN 0
        ELSE CHOOSE i \in unseen : \A j \in unseen : i <= j

\* Variant: the return statement sits outside the `if`, so the first track
\* of the list is returned whether or not it has a row.
ScanRangeReturnsFirst(tbl, user_id, lst) ==
    IF Len(lst) = 0 THEN [insert |-> NoTrack, return |-> NoTrack]
    ELSE [insert |-> IF Seen(tbl, user_id, lst[1]) THEN NoTrack ELSE lst[1],
          return |-> lst[1]]

\* Variant: the row is inserted but the scan does not return.
ScanRangeNoReturn(tbl, user_id, lst) ==
    LET i == FirstUnseen(tbl, user_id, lst)
    IN  IF i = 0 THEN [insert |-> NoTrack, return |-> NoTrack]
        ELSE [insert |-> lst[i], return |-> NoTrack]

\* The scan of one range's list (for track in tracks): the track to INSERT
\* and the track to return, NoTrack for neither.
ScanRange(tbl, user_id, lst) ==
    LET i == FirstUnseen(tbl, user_id, lst)
    IN  IF i = 0 THEN [insert |-> NoTrack, return |-> NoTrack]
        ELSE [insert |-> lst[i], return |-> lst[i]]

IdleTask ==
    [pc |-> "idle", cursor |-> 0, user_id |-> 0, credentials |-> NoCredentials,
     time_range |-> 0, tracks |-> <<>>, track |-> NoTrack,
     session |-> "none",  \* the aiohttp.ClientSession of the sweep: none, open, closed
     \* history of the sweep, for the properties below
     earlier |-> {},      \* tracks of the ranges already scanned in this get_track
     before |-> {},       \* table tracks when this get_track was called
     calls |-> 0,         \* get_track calls of this sweep
     found |-> 0,         \* tracks get_track has returned in this sweep
     sent |-> 0,          \* webhook.send calls that came back in this sweep
     logged |-> 0,        \* logger.error calls of this sweep
     requests |-> 0,      \* session.get calls of this get_track
     violations |-> 0,    \* sqlite3.IntegrityError raised by the INSERT in this sweep
     swallowed |-> 0,     \* sqlite3 errors that ended in the except branch in this sweep
     rerun |-> FALSE,     \* started right after a sweep that delivered to everyone today
     done |-> 0,          \* day on which the last sweep ran off the end of its loop
     skipped |-> {}]      \* users not yet reached when an exception ended the sweep

\* `continue`: back to the head of the for loop.  The loop's locals are
\* rebound before they are read again, so they are dropped here.
Continue(t) ==
    [IdleTask EXCEPT !.pc = "loop", !.cursor = t.cursor, !.session = t.session,
                     !.calls = t.calls, !.found = t.found, !.sent = t.sent,
                     !.logged = t.logged, !.violations = t.violations,
                     !.swallowed = t.swallowed, !.rerun = t.rerun]

\* except Exception as error: self.logger.error(...); continue
Except(t) == [Continue(t) EXCEPT !.logged = @ + 1]

Init ==
    /\ users = {}
    /\ tracks = {}
    /\ today = 1
    /\ task = [k \in Tasks |-> IdleTask]
    /\ running = [k \in Tasks |-> TRUE]
    /\ notified = EmptyBag
    /\ lost = {}
    /\ submitted = [u \in Users |-> NoCredentials]

\* Variant: a registration also clears the user's rows of table tracks.
on_submit_clears(user_id, username, api_key) ==
    /\ users' = {r \in users : r.discord_id # user_id}
                    \cup {UserRow(user_id, username, api_key)}
    /\ submitted' = [submitted EXCEPT ![user_id] =
                        [username |-> username, api_key |-> api_key]]
    /\ tracks' = {row \in tracks : row.user_id # user_id}
    /\ UNCHANGED <<today, task, running, notified, lost>>

\* Variant: INSERT OR IGNORE, an existing row is kept.
on_submit_ignores(user_id, username, api_key) ==
    /\ users' = IF user_id \in Registered THEN users
                ELSE users \cup {UserRow(user_id, username, api_key)}
    /\ submitted' = [submitted EXCEPT ![user_id] =
                        [username |-> username, api_key |-> api_key]]
    /\ UNCHANGED <<tracks, today, task, running, notified, lost>>

\* RegisterModal.on_submit: INSERT OR REPLACE INTO users; commit.
on_submit(user_id, username, api_key) ==
    /\ users' = {r \in users : r.discord_id # user_id}
                    \cup {UserRow(user_id, username, api_key)}
    /\ submitted' = [submitted EXCEPT ![user_id] =
                        [username |-> username, api_key |-> api_key]]
    /\ UNCHANGED <<tracks, today, task, running, notified, lost>>

\* The calendar date of date('now') moves on.
Midnight ==
    /\ today < MaxDay
    /\ today' = today + 1
    /\ UNCHANGED <<users, tracks, task, running, notified, lost, submitted>>

\* Every registered user has a row dated today (used by the history only).
AllDeliveredToday ==
    /\ Registered # {}
    /\ \A u \in Registered : \E row \in tracks : row.user_id = u /\ row.date = today

\* Variant: a firing does not wait for the previous sweep; it runs in any
\* free coroutine.
daily_task_overlaps(k) ==
    /\ running[k]
    /\ \E j \in Tasks :
          /\ task[j].pc = "idle"
          /\ task' = [task EXCEPT ![j] =
                        [IdleTask EXCEPT !.pc = "loop", !.session = "open"]]
    /\ UNCHANGED <<users, tracks, today, running, notified, lost, submitted>>

\* @tasks.loop(hours=24): a loop awaits its daily_task() before it sleeps for
\* the next one, so it starts a sweep only when its previous one has ended.
\* async with aiohttp.ClientSession() as session: opens the sweep's session.
daily_task(k) ==
    /\ running[k]
    /\ task[k].pc = "idle"
    /\ task' = [task EXCEPT ![k] =
                  [IdleTask EXCEPT !.pc = "loop",
                                   !.session = "open",
                                   !.rerun = (task[k].done = today /\ AllDeliveredToday)]]
    /\ UNCHANGED <<users, tracks, today, running, notified, lost, submitted>>

\* for user_id, username, api_key in SELECT ... FROM users: the next row, the
\* delivered-today test, and the call of get_track up to its first await.
NextUser(k) ==
    /\ task[k].pc = "loop"
    /\ NextRows(task[k].cursor) # {}
    /\ LET user_id == NextRow(task[k].cursor)
       IN  IF DeliveredToday(tracks, user_id, today)
           THEN task' = [task EXCEPT ![k].cursor = user_id]
           ELSE task' = [task EXCEPT ![k].cursor = user_id,
                                     ![k].user_id = user_id,
                                     ![k].credentials = get_credentials(user_id),
                                     ![k].time_range = 1,
                                     ![k].requests = 1,
                                     ![k].before = tracks,
                                     ![k].calls = @ + 1,
                                     ![k].pc = "fetch"]
    /\ UNCHANGED <<users, tracks, today, running, notified, lost, submitted>>

\* The users cursor is exhausted: the async with block closes the session
\* and the coroutine returns.
SweepDone(k) ==
    /\ task[k].pc = "loop"
    /\ NextRows(task[k].cursor) = {}
    /\ task' = [task EXCEPT ![k] =
                  [IdleTask EXCEPT !.done = today, !.session = "closed"]]
    /\ UNCHANGED <<users, tracks, today, running, notified, lost, submitted>>

Range(l) == {l[i] : i \in 1..Len(l)}

\* get_track resumes with the response for TIME_RANGES[time_range].
Fetch(k, response) ==
    /\ task[k].pc = "fetch"
    /\ LET t == task[k]
           scan == ScanRange(tracks, t.user_id, response.track)
       IN  IF response.kind # "ok"
           THEN \* raise_for_status() raises / raise APIError
                /\ task' = [task EXCEPT ![k] = Except(t)]
                /\ UNCHANGED tracks
           ELSE IF /\ scan.insert # NoTrack
                   /\ PrimaryKeyTaken(tracks, Row(t.user_id, today, scan.insert))
           THEN \* INSERT hits the primary key: sqlite3.IntegrityError
                /\ task' = [task EXCEPT ![k] =
                              [Except(t) EXCEPT !.violations = @ + 1]]
                /\ UNCHANGED tracks
           ELSE \* INSERT INTO tracks VALUES (?, date('now'), ?, ?); commit
                /\ tracks' = IF scan.insert # NoTrack
                             THEN tracks \cup {Row(t.user_id, today, scan.insert)}
                             ELSE tracks
                /\ IF scan.return # NoTrack
                   THEN \* return Track(...); back in daily_task: bot.get_user(user_id)
                        \* or await bot.fetch_user(user_id), then await webhook.send
                        \E cached \in BOOLEAN :
                          task' = [task EXCEPT ![k].track = scan.return,
                                               ![k].tracks = response.track,
                                               ![k].found = @ + 1,
                                               ![k].before = {},
                                               ![k].pc = IF cached THEN "send" ELSE "resolve"]
                   ELSE IF t.time_range < Len(TIME_RANGES)
                   THEN \* next time_range
                        task' = [task EXCEPT ![k].time_range = @ + 1,
                                             ![k].requests = @ + 1,
                                             ![k].earlier = @ \cup Range(response.track)]
                   ELSE \* get_track returns None; if not track: continue
                        task' = [task EXCEPT ![k] = Continue(t)]
    /\ UNCHANGED <<users, today, running, notified, lost, submitted>>

\* A SELECT, the INSERT or the commit inside get_track raises sqlite3.Error
\* (disk I/O error, database is locked, ...): it is an Exception, so the
\* except branch around get_track takes it.
StorageError(k) ==
    /\ task[k].pc = "fetch"
    /\ task' = [task EXCEPT ![k] = [Except(task[k]) EXCEPT !.swallowed = @ + 1]]
    /\ UNCHANGED <<users, tracks, today, running, notified, lost, submitted>>

\* Variant: the session is made without `async with` and closed only at the
\* end of the sweep.
EscapeLeaks(k, retried) ==
    /\ task' = [task EXCEPT ![k] =
                  [IdleTask EXCEPT !.skipped = NextRows(task[k].cursor),
                                   !.session = task[k].session]]
    /\ running' = [running EXCEPT ![k] = retried]

\* An exception that leaves daily_task: the session is closed by the async
\* with block.  The loop retries on connection errors (OSError,
\* aiohttp.ClientError, asyncio.TimeoutError) and stops on anything else.
Escape(k, retried) ==
    /\ task' = [task EXCEPT ![k] =
                  [IdleTask EXCEPT !.skipped = NextRows(task[k].cursor),
                                   !.session = "closed"]]
    /\ running' = [running EXCEPT ![k] = retried]

\* Variant: `if not user: continue` with the test inverted.
ResolveSkipsSend(k, outcome) ==
    /\ task[k].pc = "resolve"
    /\ IF outcome = "ok"
       THEN /\ task' = [task EXCEPT ![k] = Continue(task[k])]
            /\ UNCHANGED running
       ELSE Escape(k, outcome = "retry")
    /\ UNCHANGED <<users, tracks, today, notified, lost, submitted>>

\* await self.bot.fetch_user(user_id) returns the user or raises.
Resolve(k, outcome) ==
    /\ task[k].pc = "resolve"
    /\ IF outcome = "ok"
       THEN /\ task' = [task EXCEPT ![k].pc = "send"]
            /\ UNCHANGED running
       ELSE Escape(k, outcome = "retry")
    /\ UNCHANGED <<users, tracks, today, notified, lost, submitted>>

\* await self.webhook.send(...) returns or raises; the call was made.
Send(k, outcome) ==
    /\ task[k].pc = "send"
    /\ notified' = notified (+) SetToBag({[user_id |-> task[k].user_id,
                                           track |-> task[k].track,
                                           date |-> today]})
    /\ IF outcome = "ok"
       THEN /\ task' = [task EXCEPT ![k] = [Continue(task[k]) EXCEPT !.sent = @ + 1]]
            /\ UNCHANGED running
       ELSE Escape(k, outcome = "retry")
    /\ UNCHANGED <<users, tracks, today, lost, submitted>>

\* The process dies and is started again: every coroutine is gone, the
\* tables stay, __init__ runs self.daily_task.start().
Crash ==
    /\ lost' = lost \cup {<<task[k].user_id, task[k].track>> :
                            k \in {j \in Tasks : task[j].pc \in {"resolve", "send"}}}
    /\ task' = [k \in Tasks |-> IdleTask]
    /\ running' = [k \in Tasks |-> TRUE]
    /\ UNCHANGED <<users, tracks, today, notified, submitted>>

Outcomes == {"ok", "retry", "fatal"}

\* One scheduler: the loop started by __init__ is task 1.
Next ==
    \/ \E u \in Users, c \in CredentialSet : on_submit(u, c.username, c.api_key)
    \/ Midnight
    \/ daily_task(1)
    \/ \E k \in Tasks : NextUser(k)
    \/ \E k \in Tasks : SweepDone(k)
    \/ \E k \in Tasks, response \in Responses : Fetch(k, response)
    \/ \E k \in Tasks, outcome \in Outcomes : Resolve(k, outcome)
    \/ \E k \in Tasks, outcome \in Outcomes : Send(k, outcome)
    \/ \E k \in Tasks : StorageError(k)
    \/ Crash

Spec == Init /\ [][Next]_vars

\* Two schedulers over the same tables: a second daily_task loop runs while
\* the first is suspended at an await (nothing in the cog stops the loop of
\* an instance that is replaced by a new one).  One user is registered.
InitOverlap ==
    /\ users = {UserRow(1, Credentials(1).username, Credentials(1).api_key)}
    /\ tracks = {}
    /\ today = 1
    /\ task = [k \in Tasks |-> IdleTask]
    /\ running = [k \in Tasks |-> TRUE]
    /\ notified = EmptyBag
    /\ lost = {}
    /\ submitted = [u \in Users |-> IF u = 1 THEN Credentials(1) ELSE NoCredentials]

NextOverlap ==
    \/ Midnight
    \/ \E k \in Tasks : daily_task(k)
    \/ \E k \in Tasks : NextUser(k)
    \/ \E k \in Tasks : SweepDone(k)
    \/ \E k \in Tasks, response \in Responses : Fetch(k, response)
    \/ \E k \in Tasks, outcome \in Outcomes : Resolve(k, outcome)
    \/ \E k \in Tasks, outcome \in Outcomes : Send(k, outcome)

SpecOverlap == InitOverlap /\ [][NextOverlap]_vars

\* ------------------------------------------------------------ properties
RowsOf(tbl, user_id) == {row \in tbl : row.user_id = user_id}
RowsOn(tbl, user_id, day) == {row \in tbl : row.user_id = user_id /\ row.date = day}
SentTo(user_id, day) ==
    {n \in BagToSet(notified) : n.user_id = user_id /\ n.date = day}
SentFor(user_id, t) ==
    {n \in BagToSet(notified) : n.user_id = user_id /\ n.track = t}
AtMostOneCall(S) ==
    \/ S = {}
    \/ Cardinality(S) = 1 /\ \A n \in S : CopiesIn(n, notified) = 1

\* The step in which task k's get_track returns a track.
Returns(k) == task[k].pc = "fetch" /\ task'[k].pc \in {"resolve", "send"}

\* C1. No duplicate delivery: whenever get_track returns a track T for a
\* user U, table tracks held no row (U, T) before that step; so once (U, T)
\* is in the table no later get_track for U returns T.
NoDuplicateDelivery ==
    [][\A k \in Tasks :
         Returns(k) => ~Seen(tracks, task[k].user_id, task'[k].track)]_vars

\* A get_track for a user returned the second track of a list whose first
\* track was recorded for that user on an earlier day.
NoDuplicateDeliveryWitness ==
    \E k \in Tasks :
       /\ task[k].pc = "send"
       /\ Len(task[k].tracks) = 2
       /\ task[k].track = task[k].tracks[2]
       /\ task[k].track # task[k].tracks[1]
       /\ \E d \in Days : d < today /\
             Row(task[k].user_id, d, task[k].tracks[1]) \in tracks

\* C2. Priority order: when get_track returns a track, it is the first track
\* of the current range's list that had no row for the user, every track of
\* every range scanned before it had a row, and the ranges were taken in the
\* order of TIME_RANGES.
PriorityOrder ==
    [][\A k \in Tasks :
         Returns(k) =>
           LET u == task[k].user_id
               l == task'[k].tracks
               T == task'[k].track
           IN  /\ task'[k].time_range = task[k].time_range
               /\ task[k].time_range \in 1..Len(TIME_RANGES)
               /\ \A e \in task[k].earlier : Seen(tracks, u, e)
               /\ \E i \in 1..Len(l) :
                     /\ l[i] = T
                     /\ ~Seen(tracks, u, T)
                     /\ \A j \in 1..(i - 1) : Seen(tracks, u, l[j])]_vars

\* The example on its second day: A was recorded the day before, the 7day
\* list was [A], the 1month list is [C, A], and C is returned.
PriorityOrderWitness ==
    \E k \in Tasks, A, C \in Tracks :
       /\ A # C
       /\ today = 2
       /\ task[k].pc = "send"
       /\ TIME_RANGES[task[k].time_range] = "1month"
       /\ task[k].earlier = {A}
       /\ task[k].tracks = <<C, A>>
       /\ task[k].track = C
       /\ Row(task[k].user_id, 1, A) \in tracks

\* C3. Daily cap: for every user and every day, at most one row of table
\* tracks carries that date and at most one webhook.send call was made for
\* that user on that day.
DailyCap ==
    \A u \in Users, d \in Days :
       /\ Cardinality(RowsOn(tracks, u, d)) <= 1
       /\ AtMostOneCall(SentTo(u, d))

\* C4. With overlapping sweeps, still at most one row dated today per user
\* and at most one webhook.send call for that user today.
DailyCapOverlap ==
    \A u \in Users :
       /\ \A r1, r2 \in RowsOn(tracks, u, today) : r1 = r2
       /\ AtMostOneCall(SentTo(u, today))

OncePerUserPerDay ==
    [][\A u \in Users :
         RowsOn(tracks, u, today) # {}
            => /\ RowsOf(tracks', u) = RowsOf(tracks, u)
               /\ \A k \in Tasks : ~(Returns(k) /\ task[k].user_id = u)]_vars

\* A later sweep has passed a user delivered today without a fetch, while a
\* track without a row remains for that user.
OncePerUserPerDayWitness ==
    \E k \in Tasks, u \in Users :
       /\ task[k].pc = "loop"
       /\ task[k].cursor = u
       /\ task[k].found = 0
       /\ task[k].logged = 0
       /\ RowsOn(tracks, u, today) # {}
       /\ \E t \in Tracks : ~Seen(tracks, u, t)

\* C7. Failure isolation: no exception ends a sweep while registered users
\* are still to be reached.
FailureIsolation ==
    \A k \in Tasks : task[k].skipped = {}

\* C8. A response with a non-success status or an error payload ends the
\* get_track call in the exception handler (logged, no track returned) and
\* table tracks is what it was when get_track was called.
ServiceErrorLeavesLedger ==
    [][\A k \in Tasks, response \in Responses :
         (response.kind # "ok" /\ Fetch(k, response))
            => /\ task'[k].pc = "loop"
               /\ task'[k].logged = task[k].logged + 1
               /\ task'[k].found = task[k].found
               /\ tracks' = task[k].before]_vars

\* A user with rows of earlier days had today's discovery end in the handler.
ServiceErrorLeavesLedgerWitness ==
    \E k \in Tasks, u \in Users :
       /\ task[k].pc = "loop"
       /\ task[k].cursor = u
       /\ task[k].logged = 1
       /\ RowsOf(tracks, u) # {}
       /\ RowsOn(tracks, u, today) = {}

\* C9. At-most-once caveat: a track recorded for a user whose process died
\* before the webhook.send call keeps its row and is never notified.
LostNeverNotified ==
    \A p \in lost :
       /\ Seen(tracks, p[1], p[2])
       /\ SentFor(p[1], p[2]) = {}

\* After such a crash the user was notified of another track on a later day.
LostNeverNotifiedWitness ==
    \E p \in lost, n \in BagToSet(notified) :
       /\ n.user_id = p[1]
       /\ n.track # p[2]
       /\ Row(p[1], 1, p[2]) \in tracks
       /\ n.date = 2

\* C10. In a sweep that no exception or crash has ended, the webhook.send
\* calls made equal the tracks get_track returned, but for the one whose
\* call is being made; every call is for a recorded track of that user and
\* none is made twice.
OneCallPerTrack ==
    /\ \A k \in Tasks :
          /\ task[k].pc \in {"loop", "fetch"} => task[k].sent = task[k].found
          /\ task[k].pc \in {"resolve", "send"} => task[k].sent + 1 = task[k].found
    /\ \A n \in BagToSet(notified) :
          /\ CopiesIn(n, notified) = 1
          /\ Seen(tracks, n.user_id, n.track)
          /\ AtMostOneCall(SentFor(n.user_id, n.track))

\* A sweep over two users reached its end on one day with one track found
\* and one call made; the other user's get_track returned None.
OneCallPerTrackWitness ==
    \E k \in Tasks :
       /\ task[k].pc = "loop"
       /\ NextRows(task[k].cursor) = {}
       /\ Cardinality(Registered) = 2
       /\ today = 1
       /\ task[k].calls = 2
       /\ task[k].found = 1
       /\ task[k].sent = 1
       /\ task[k].logged = 0

\* C11. The sweep skips the user it reaches exactly when table tracks holds
\* a row of that user dated today: then there is no get_track call, no
\* insert and no webhook.send; otherwise get_track is called for that user,
\* whatever happened to the user in earlier sweeps.  The user reached is the
\* next registered one.
SkipIffDeliveredToday ==
    [][\A k \in Tasks :
         (/\ task[k].pc = "loop"
          /\ task'[k].pc # "idle"
          /\ task'[k].cursor # task[k].cursor)
            => LET u == task'[k].cursor
               IN  /\ u \in Registered
                   /\ \A v \in Registered : v > task[k].cursor => u <= v
                   /\ tracks' = tracks
                   /\ notified' = notified
                   /\ IF RowsOn(tracks, u, today) # {}
                      THEN /\ task'[k].pc = "loop"
                           /\ task'[k].calls = task[k].calls
                      ELSE /\ task'[k].pc = "fetch"
                           /\ task'[k].user_id = u
                           /\ task'[k].calls = task[k].calls + 1]_vars

\* A later sweep has skipped user 1, delivered today by an earlier sweep,
\* and called get_track for user 2, who has rows but none dated today.
SkipIffDeliveredTodayWitness ==
    \E k \in Tasks :
       /\ task[k].pc = "fetch"
       /\ task[k].user_id = 2
       /\ task[k].calls = 1
       /\ task[k].found = 0
       /\ 1 \in Registered
       /\ RowsOn(tracks, 1, today) # {}
       /\ RowsOf(tracks, 2) # {}
       /\ RowsOn(tracks, 2, today) = {}

\* C12. A response whose tracks all have a row for the user (an empty list
\* included) inserts nothing, raises nothing and returns nothing: before the
\* last range it moves get_track to the next range, at the last range
\* get_track returns None with table tracks as it was at the call.
AllSeenReturnsNone ==
    [][\A k \in Tasks, response \in Responses :
         (/\ response.kind = "ok"
          /\ Fetch(k, response)
          /\ \A t \in Range(response.track) : Seen(tracks, task[k].user_id, t))
            => /\ tracks' = tracks
               /\ task'[k].found = task[k].found
               /\ task'[k].logged = task[k].logged
               /\ IF task[k].time_range < Len(TIME_RANGES)
                  THEN /\ task'[k].pc = "fetch"
                       /\ task'[k].time_range = task[k].time_range + 1
                       /\ task'[k].requests = task[k].requests + 1
                  ELSE /\ task'[k].pc = "loop"
                       /\ task[k].requests = Len(TIME_RANGES)
                       /\ tracks' = task[k].before]_vars

\* A get_track call for a user with rows has returned None: six requests
\* were answered, nothing was found and nothing was logged.
AllSeenReturnsNoneWitness ==
    \E k \in Tasks :
       /\ task[k].pc = "loop"
       /\ task[k].cursor = 1
       /\ task[k].calls = 1
       /\ task[k].found = 0
       /\ task[k].logged = 0
       /\ RowsOf(tracks, 1) # {}

\* C13. Credential upsert: table users holds at most one row per user, and
\* get_credentials gives the values of the user's last submitted modal, None
\* for a user who never submitted one.
CredentialUpsert ==
    \A u \in Users :
       /\ Cardinality({r \in users : r.discord_id = u}) <= 1
       /\ get_credentials(u) = submitted[u]

\* A user registered again with other values while a sweep held the old
\* ones, and another user never registered.
CredentialUpsertWitness ==
    \E k \in Tasks, v \in Users :
       /\ task[k].pc = "fetch"
       /\ task[k].credentials # get_credentials(task[k].user_id)
       /\ get_credentials(v) = NoCredentials

\* C14. A running sweep has its one session open, and no session is open
\* when the sweep is not running, however it ended.
SessionClosedWhenIdle ==
    \A k \in Tasks :
       /\ task[k].pc = "idle" => task[k].session # "open"
       /\ task[k].pc # "idle" => task[k].session = "open"

\* A sweep was ended by an exception that stopped the loop; its session is
\* closed.
SessionClosedWhenIdleWitness ==
    \E k \in Tasks :
       /\ task[k].pc = "idle"
       /\ task[k].session = "closed"
       /\ ~running[k]

\* C15. Short circuit: a step of get_track changes table tracks only when it
\* returns; it then adds exactly one row, the returned track dated today, to
\* the table as it was at the call, one request was made per range up to
\* this one and none is made after it.
ShortCircuit ==
    [][\A k \in Tasks :
         (task[k].pc = "fetch" /\ (tracks' # tracks \/ Returns(k)))
            => /\ Returns(k)
               /\ tracks = task[k].before
               /\ tracks' = tracks \cup {Row(task[k].user_id, today, task'[k].track)}
               /\ Cardinality(tracks') = Cardinality(tracks) + 1
               /\ task[k].requests = task[k].time_range
               /\ task'[k].requests = task[k].requests]_vars

\* The first track of a two-track list was returned from a range before the
\* last; the second track has no row.
ShortCircuitWitness ==
    \E k \in Tasks :
       /\ task[k].pc = "send"
       /\ task[k].time_range = 2
       /\ Len(task[k].tracks) = 2
       /\ task[k].track = task[k].tracks[1]
       /\ ~Seen(tracks, task[k].user_id, task[k].tracks[2])

\* C16. With overlapping sweeps, the INSERT never meets a key that is in
\* table tracks, and the table holds one row per (user, artist, name).
InsertOncePerKey ==
    /\ \A k \in Tasks : task[k].violations = 0
    /\ \A r1, r2 \in tracks : PrimaryKeyTaken({r1}, r2) => r1 = r2

\* Two overlapping sweeps recorded different tracks for the same user; the
\* second was offered the first one's track and found its row.
InsertOncePerKeyWitness ==
    /\ task[1].pc = "send"
    /\ task[2].pc = "send"
    /\ task[1].user_id = task[2].user_id
    /\ task[2].tracks = <<task[1].track, task[2].track>>
    /\ task[1].track # task[2].track

\* C17. No overlapping sweeps: at most one daily_task coroutine is running,
\* and so at most one user is being processed.
AtMostOneSweep ==
    Cardinality({k \in Tasks : task[k].pc # "idle"}) <= 1

\* The sweep is fetching for user 2 after it has finished with user 1.
AtMostOneSweepWitness ==
    \E k \in Tasks :
       /\ task[k].pc = "fetch"
       /\ task[k].user_id = 2
       /\ task[k].found = 1
       /\ task[k].sent = 1

\* C18. Recovery: whatever stopped a sweep, the scheduler fires again.
SchedulerFiresAgain ==
    \A k \in Tasks : running[k]

\* C19. A storage failure while a user is processed is not caught, logged
\* and skipped.
StorageErrorSurfaces ==
    \A k \in Tasks : task[k].swallowed = 0

\* C20. Append-only ledger: no step removes or changes a row of table tracks.
AppendOnly ==
    [][tracks \subseteq tracks']_vars

\* A user registered again with other values during a sweep; the row of an
\* earlier day is still there and its track was passed over.
AppendOnlyWitness ==
    \E k \in Tasks :
       /\ task[k].pc = "send"
       /\ task[k].credentials # get_credentials(task[k].user_id)
       /\ Len(task[k].tracks) = 2
       /\ task[k].track = task[k].tracks[2]
       /\ Row(task[k].user_id, 1, task[k].tracks[1]) \in tracks
       /\ today = 2

====
